---- MODULE Spec2Model ----
(***************************************************************************)
(* The supervisor's notification broker                                    *)
(* (components/supervisor/pkg/supervisor/notification.go).                 *)
(*                                                                         *)
(* Every transport call (Notify, Subscribe, Respond) runs in its own       *)
(* goroutine.  A section of code that runs under srv.mutex is one action;  *)
(* the code outside the mutex (the admission check of Notify, the two      *)
(* select statements) is split at every point where another goroutine can  *)
(* interleave.  A select with several ready cases is a nondeterministic    *)
(* choice among them, as the Go specification defines it.                  *)
(*                                                                         *)
(* Heap objects outlive their table entry: pend and subs hold the          *)
(* pendingNotification and subscription objects that a map or a running    *)
(* call still references, while pendingNotifications and subscriptions are *)
(* the key sets of the two maps.  An object nothing references is          *)
(* collected.                                                              *)
(***************************************************************************)
EXTENDS Integers, Sequences, FiniteSets, TLC

\* ------------------------------------------------------------------ bounds

\* Number of goroutines that call Notify (each may call again after return).
NumProducers == 2
\* Number of goroutines that call Subscribe.
NumSubscribers == 2
\* Cap on nextNotificationID: Notify calls that are admitted in a behaviour.
MaxNotifications == 2
\* Cap on nextSubscriptionID: Subscribe calls in a behaviour.
MaxSubscriptions == 2
\* Capacity of the pending table; the source sets 120 (notification.go:22).
PendingCapacity == 1
\* Floor of a subscriber's queue; the source sets 100 (notification.go:23).
SubscriberFloor == 1

NotifierMaxPendingNotifications == PendingCapacity
SubscriberMaxPendingNotifications == SubscriberFloor

Producers == 1..NumProducers
Subscribers == 1..NumSubscribers

\* ------------------------------------------------------------------ values

\* resp.Command == nil
NilCommand == "nil"

\* api.NotifyRequest: the fields the broker reads.
NotifyRequest(active, actions, open, preview) ==
    [Active |-> active, Actions |-> actions, Open |-> open, Preview |-> preview]

\* The requests producers submit: non-blocking ones for both flag values,
\* and requests that block through each of the three fields.
Requests ==
    { NotifyRequest(TRUE, <<>>, FALSE, FALSE),
      NotifyRequest(FALSE, <<>>, FALSE, FALSE),
      NotifyRequest(TRUE, <<"yes">>, FALSE, FALSE),
      NotifyRequest(FALSE, <<>>, TRUE, FALSE),
      NotifyRequest(TRUE, <<>>, FALSE, TRUE) }

\* api.NotifyResponse: Action is a string, Command a pointer (NilCommand when
\* nil, otherwise the value of Command.Cmd).
NotifyResponse(action, command) == [Action |-> action, Command |-> command]

\* The responses responders submit: the user's cancel, an action that is or is
\* is not among the request's, and commands with and without a cmd, next to an
\* action that is or is not among the request's.
Responses ==
    { NotifyResponse("", NilCommand),
      NotifyResponse("yes", NilCommand),
      NotifyResponse("maybe", NilCommand),
      NotifyResponse("maybe", "run"),
      NotifyResponse("yes", "") }

\* &api.NotifyResponse{}
EmptyResponse == NotifyResponse("", NilCommand)

NoId == 0 - 1

\* ------------------------------------------------------------------ state

VARIABLES
    mutex,                  \* srv.mutex: "free", or who blocks while holding it
    nextSubscriptionID,     \* srv.nextSubscriptionID
    subscriptions,          \* keys of srv.subscriptions
    subs,                   \* the live subscription objects, by id
    nextNotificationID,     \* srv.nextNotificationID
    pendingNotifications,   \* keys of srv.pendingNotifications
    pend,                   \* the live pendingNotification objects, by request id
    notify,                 \* the Notify call of each producer goroutine
    subscribe,              \* the Subscribe call of each subscriber goroutine
    returned                \* the call that returned in the last step, if one did:
                            \* what its caller gets, and the object it worked on

broker ==
    <<nextSubscriptionID, subscriptions, subs,
      nextNotificationID, pendingNotifications, pend>>

vars ==
    <<mutex, nextSubscriptionID, subscriptions, subs, nextNotificationID,
      pendingNotifications, pend, notify, subscribe, returned>>

NoCall == [call |-> "none"]

\* Notify returned code (a gRPC code, or Canceled for the context's error) and,
\* with OK, resp.  pending is the pendingNotification it waited on (NoId when
\* it failed admission); ctxDone tells whether its context was done, and
\* ackedAtCancel how many responses Respond had acked when it became done.
NotifyReturned(code, resp, pending, frame) ==
    [call |-> "Notify", code |-> code, resp |-> resp, pending |-> pending,
     ctxDone |-> frame.ctxDone, ackedAtCancel |-> frame.ackedAtCancel]

\* Respond returned code for request id.
RespondReturned(id, code) == [call |-> "Respond", RequestId |-> id, code |-> code]

\* Subscribe returned code; subscription is the object it served.
SubscribeReturned(code, subscription) ==
    [call |-> "Subscribe", code |-> code, subscription |-> subscription]

IdleNotify ==
    [pc |-> "idle", req |-> NotifyRequest(FALSE, <<>>, FALSE, FALSE),
     ctxDone |-> FALSE, ackedAtCancel |-> 0, pending |-> NoId]

IdleSubscribe ==
    [pc |-> "idle", id |-> NoId, code |-> "none"]

\* NewNotificationService: both maps empty, both counters zero.
Init ==
    /\ mutex = "free"
    /\ nextSubscriptionID = 0
    /\ subscriptions = {}
    /\ subs = <<>>
    /\ nextNotificationID = 0
    /\ pendingNotifications = {}
    /\ pend = <<>>
    /\ notify = [p \in Producers |-> IdleNotify]
    /\ subscribe = [s \in Subscribers |-> IdleSubscribe]
    /\ returned = NoCall

\* ------------------------------------------------------------------ helpers

\* A set as a sequence, in each order a range over a Go map can produce.
Orders(S) ==
    { o \in [1..Cardinality(S) -> S] : \A i, j \in 1..Cardinality(S) : i # j => o[i] # o[j] }

Max(a, b) == IF a > b THEN a ELSE b

InSeq(x, seq) == \E i \in 1..Len(seq) : seq[i] = x

Range(seq) == { seq[i] : i \in 1..Len(seq) }

\* The objects of a heap that a map key or a call's local variable references.
Live(heap, refs) == [i \in (DOMAIN heap) \cap refs |-> heap[i]]

\* Mutant of isBlocking: open is not looked at.
isBlockingNoOpen(req) == Len(req.Actions) > 0 \/ req.Preview

\* Mutant of isBlocking: every request waits for a response.
isBlockingAlways(req) == TRUE

isBlocking(req) == Len(req.Actions) > 0 \/ req.Open \/ req.Preview

\* Mutant of supports: every subscription matches every request.
supportsAny(s, req) == TRUE

supports(s, req) == s.active = req.Active

\* Mutant of validateResponse: the action is not looked up in req.Actions.
validateAnyAction(resp, req) ==
    IF resp.Command # NilCommand THEN resp.Command # "" ELSE TRUE

validateResponse(resp, req) ==
    IF resp.Command # NilCommand THEN resp.Command # ""
    ELSE IF resp.Action = "" THEN TRUE
    ELSE InSeq(resp.Action, req.Actions)

\* Mutant of closePending: close() closes the channel and leaves the closed
\* flag unset.
closePendingUnflagged(pending) == pending

\* Mutant of closePending: close() without the once guard.
closePendingAgain(pending) ==
    [pending EXCEPT !.closed = TRUE, !.events = Append(@, "close")]

\* pendingNotification.close: the first call closes the channel and sets the
\* flag; the once guard makes every later call a no-op.  events is the history
\* of the sends on the entry's response channel and of its closes.
closePending(pending) ==
    IF pending.closed THEN pending
    ELSE [pending EXCEPT !.closed = TRUE, !.events = Append(@, "close")]

\* pending.responseChannel <- resp, on a channel with a free slot.
sendOn(pending, resp) ==
    [pending EXCEPT !.responseChannel = Append(@, resp), !.events = Append(@, "send")]

\* Mutant of closeSubscription: close() leaves the subscription open.
closeSubscriptionUnflagged(subscription) == subscription

\* subscription.close: likewise; cancel() cancels a context nothing reads.
\* closes counts the closes of the subscription's channel.
closeSubscription(subscription) ==
    IF subscription.closed THEN subscription
    ELSE [subscription EXCEPT !.closed = TRUE, !.closes = @ + 1]

\* A send on the buffered channel can proceed iff it has a free slot.
CanSend(subscription) == Len(subscription.channel) < subscription.capacity

\* Mutant of trySend: a plain send, which waits when it cannot proceed.
blockingSend(subscription) == IF CanSend(subscription) THEN "sent" ELSE "blocked"

\* The fan-out's send: a select with a default case, which takes the default
\* instead of waiting when the send cannot proceed.
trySend(subscription) == IF CanSend(subscription) THEN "sent" ELSE "default"

\* Mutant of AtCapacity: the admission check compares with > instead of >=.
AboveCapacity(n) == n > NotifierMaxPendingNotifications

\* len(srv.pendingNotifications) >= NotifierMaxPendingNotifications
AtCapacity(n) == n >= NotifierMaxPendingNotifications

\* Mutant of Increment: the counter is not advanced.
IncrementForgotten(n) == n

\* srv.nextNotificationID++ and srv.nextSubscriptionID++.  The counters are
\* uint64; the runs stay far below the value at which they wrap.
Increment(n) == n + 1

\* Mutant of Unregistered: the fan-out closes an unresponsive subscription
\* and forgets to delete it.
UnregisteredNone(evicted) == subscriptions

\* The registry after the fan-out evicted these subscriptions.
Unregistered(evicted) == subscriptions \ evicted

\* The subscriptions the fan-out of req sends to or evicts.
Eligible(req) == { i \in subscriptions : supports(subs[i], req) }

\* What a failed admission hands back instead of a pendingNotification.
NoPending(req) ==
    [message |-> [RequestId |-> NoId, Request |-> req],
     responseChannel |-> <<>>, closed |-> FALSE, acked |-> <<>>, events |-> <<>>]

\* ------------------------------------------------------------------ Notify

\* Notify, the admission check.  len() reads the map without the mutex; the
\* maps change by one entry per step of a critical section, or shrink
\* monotonically during a replay, so the values the racing read can see decide
\* the comparison as the size before or after a critical section does.
\* Idle goroutines are interchangeable: the lowest one takes the call.
NotifyAdmission(p, req) ==
    /\ returned = NoCall
    /\ notify[p].pc = "idle"
    /\ \A q \in Producers : q < p => notify[q].pc # "idle"
    /\ nextNotificationID
         + Cardinality({ q \in Producers : notify[q].pc = "admitted" }) < MaxNotifications
    /\ IF AtCapacity(Cardinality(pendingNotifications))
       THEN /\ returned' = NotifyReturned("ResourceExhausted", EmptyResponse,
                                          NoPending(req), notify[p])
            /\ notify' = notify
       ELSE /\ returned' = NoCall
            /\ notify' = [notify EXCEPT ![p] = [@ EXCEPT !.pc = "admitted", !.req = req]]
    /\ UNCHANGED <<mutex, broker, subscribe>>

\* notifySubscribers, under the mutex: allocate the id, fan out with a
\* try-send that evicts a subscription whose queue is full, insert the
\* pending entry, and pre-load the response of a non-blocking request.  A
\* send that waits would do so with the mutex held.
NotifySubscribers(p) ==
    /\ returned = NoCall
    /\ notify[p].pc = "admitted"
    /\ mutex = "free"
    /\ LET req == notify[p].req
           requestID == nextNotificationID
           hit == { i \in Eligible(req) : trySend(subs[i]) = "sent" }
           evicted == { i \in Eligible(req) : trySend(subs[i]) = "default" }
           waits == Eligible(req) \ (hit \cup evicted)
           message == [RequestId |-> requestID, Request |-> req]
           pending == [message |-> message,
                       responseChannel |-> <<>>,
                       closed |-> FALSE,
                       acked |-> <<>>,
                       events |-> <<>>]
       IN /\ nextNotificationID' = Increment(nextNotificationID)
          /\ subs' = [i \in DOMAIN subs |->
                        IF i \in hit
                        THEN [subs[i] EXCEPT !.channel = Append(@, message)]
                        ELSE IF i \in evicted THEN closeSubscription(subs[i])
                        ELSE subs[i]]
          /\ subscriptions' = Unregistered(evicted)
          /\ pend' = (requestID :> (IF isBlocking(req) THEN pending
                                    ELSE closePending(sendOn(pending, EmptyResponse))))
                      @@ pend
          /\ pendingNotifications' = pendingNotifications \cup {requestID}
          /\ notify' = [notify EXCEPT ![p] =
                          [@ EXCEPT !.pc = IF waits = {} THEN "select" ELSE "blocked",
                                    !.pending = requestID]]
          /\ mutex' = IF waits = {} THEN mutex ELSE "notifySubscribers"
    /\ returned' = NoCall
    /\ UNCHANGED <<nextSubscriptionID, subscribe>>

\* Notify, the select's first case: a value is buffered on the response
\* channel (the call returns it), or the channel is closed and empty (Aborted).
NotifyReceive(p) ==
    /\ returned = NoCall
    /\ notify[p].pc = "select"
    /\ LET id == notify[p].pending
           channel == pend[id].responseChannel
           received == [pend EXCEPT ![id].responseChannel =
                          IF channel # <<>> THEN Tail(channel) ELSE channel]
       IN /\ channel # <<>> \/ pend[id].closed
          /\ notify' = [notify EXCEPT ![p] = IdleNotify]
          /\ returned' = IF channel # <<>>
                         THEN NotifyReturned("OK", Head(channel), received[id], notify[p])
                         ELSE NotifyReturned("Aborted", EmptyResponse, received[id],
                                             notify[p])
          /\ pend' = Live(received, pendingNotifications
                                      \cup { notify'[q].pending : q \in Producers })
    /\ UNCHANGED <<mutex, nextSubscriptionID, subscriptions, subs, nextNotificationID,
                   pendingNotifications, subscribe>>

\* Mutant of CancelledTable: the cancellation branch closes the entry and
\* forgets to delete it.
CancelledTableKept(id) == pendingNotifications

\* The pending table after Notify's cancellation branch for id: the entry is
\* deleted if the table still holds it.
CancelledTable(id) ==
    IF id \in pendingNotifications THEN pendingNotifications \ {id}
    ELSE pendingNotifications

\* Notify, the select's second case: the context is done.  Under the mutex
\* the entry is removed and closed if it is still in the table; the call
\* returns the context's error.
NotifyCtxDone(p) ==
    /\ returned = NoCall
    /\ notify[p].pc = "select"
    /\ notify[p].ctxDone
    /\ mutex = "free"
    /\ LET id == notify[p].pending
           closed == IF id \in pendingNotifications
                     THEN [pend EXCEPT ![id] = closePending(@)] ELSE pend
       IN /\ pendingNotifications' = CancelledTable(id)
          /\ notify' = [notify EXCEPT ![p] = IdleNotify]
          /\ returned' = NotifyReturned("Canceled", EmptyResponse, closed[id], notify[p])
          /\ pend' = Live(closed, pendingNotifications'
                                    \cup { notify'[q].pending : q \in Producers })
    /\ UNCHANGED <<mutex, nextSubscriptionID, subscriptions, subs, nextNotificationID,
                   subscribe>>

\* The caller cancels the context of its Notify call (or its deadline passes).
\* Nothing reads the context before the select, so a cancellation before the
\* select is reached acts as one right after notifySubscribers.
NotifyCancel(p) ==
    /\ returned = NoCall
    /\ notify[p].pc = "select"
    /\ ~notify[p].ctxDone
    /\ notify' = [notify EXCEPT ![p] =
                    [@ EXCEPT !.ctxDone = TRUE,
                              !.ackedAtCancel = Len(pend[notify[p].pending].acked)]]
    /\ returned' = NoCall
    /\ UNCHANGED <<mutex, broker, subscribe>>

\* ------------------------------------------------------------------ Subscribe

\* Mutant of Capacity: the queue always gets the floor.
CapacityFloor(n) == SubscriberMaxPendingNotifications

\* The capacity subscribeLocked gives the queue of a new subscription.
Capacity(n) == Max(SubscriberMaxPendingNotifications, n)

\* Mutant of Replayed: the replay does not look at the flag.
ReplayedAll(active) == pendingNotifications

\* The pending entries a new subscription with this flag is replayed.
Replayed(active) ==
    { id \in pendingNotifications : supports([active |-> active], pend[id].message.Request) }

\* subscribeLocked, under the mutex: allocate and register the subscription,
\* then range over the pending table (in the map's order) and send every
\* eligible entry on the new queue, deleting the non-blocking ones.  The sends
\* are blocking sends; one that finds the queue full waits, with the mutex
\* held, for a reader that has not started.  Idle goroutines are
\* interchangeable: the lowest one takes the call.
SubscribeLocked(s, active) ==
    /\ returned = NoCall
    /\ subscribe[s].pc = "idle"
    /\ \A t \in Subscribers : t < s => subscribe[t].pc # "idle"
    /\ mutex = "free"
    /\ nextSubscriptionID < MaxSubscriptions
    /\ LET capacity == Capacity(Cardinality(pendingNotifications))
           id == nextSubscriptionID
       IN \E order \in Orders(Replayed(active)) :
            LET n == IF Len(order) <= capacity THEN Len(order) ELSE capacity
                queued == [i \in 1..n |-> pend[order[i]].message]
                dropped == { i \in { order[k] : k \in 1..n } :
                               ~isBlocking(pend[i].message.Request) }
                subscription == [id |-> id, active |-> active, channel |-> queued,
                                 capacity |-> capacity, closed |-> FALSE,
                                 closes |-> 0]
            IN /\ nextSubscriptionID' = Increment(nextSubscriptionID)
               /\ subs' = (id :> subscription) @@ subs
               /\ subscriptions' = subscriptions \cup {id}
               /\ pendingNotifications' = pendingNotifications \ dropped
               /\ pend' = Live(pend, pendingNotifications'
                                       \cup { notify[q].pending : q \in Producers })
               /\ mutex' = IF n < Len(order) THEN "subscribeLocked" ELSE mutex
               /\ subscribe' = [subscribe EXCEPT ![s] =
                                  [@ EXCEPT !.pc = IF n < Len(order) THEN "blocked" ELSE "loop",
                                            !.id = id]]
    /\ returned' = NoCall
    /\ UNCHANGED <<nextNotificationID, notify>>

\* Subscribe, the select's first case: a message is buffered on the queue,
\* or the queue is closed and empty, which ends the loop with Aborted.  After
\* a message was read the closed flag is read without the mutex: close()
\* closes the channel before it sets the flag, and nothing orders the write
\* before this read, so the read of a closed subscription's flag yields true
\* (seesClosed) or still false.  Seeing it set ends the loop with Aborted;
\* otherwise the message is forwarded with resp.Send, which succeeds
\* (sendFails is false) or fails as the transport decides.
SubscribeReceive(s, sendFails, seesClosed) ==
    /\ returned = NoCall
    /\ subscribe[s].pc = "loop"
    /\ LET id == subscribe[s].id
           channel == subs[id].channel
       IN /\ channel # <<>> \/ subs[id].closed
          /\ seesClosed => subs[id].closed
          /\ subs' = [subs EXCEPT ![id].channel =
                        IF channel # <<>> THEN Tail(channel) ELSE channel]
          /\ subscribe' =
               IF channel = <<>> \/ seesClosed
               THEN [subscribe EXCEPT ![s] =
                       [@ EXCEPT !.pc = "unsubscribe", !.code = "Aborted"]]
               ELSE IF sendFails
               THEN [subscribe EXCEPT ![s] =
                       [@ EXCEPT !.pc = "unsubscribe", !.code = "Internal"]]
               ELSE subscribe
    /\ returned' = NoCall
    /\ UNCHANGED <<mutex, nextSubscriptionID, subscriptions, nextNotificationID,
                   pendingNotifications, pend, notify>>

\* Subscribe, the select's second case: the stream's context is done.  Only
\* this select reads the context, so the transport's cancellation and the
\* select observing it are one step.
SubscribeCtxDone(s) ==
    /\ returned = NoCall
    /\ subscribe[s].pc = "loop"
    /\ subscribe' = [subscribe EXCEPT ![s] = [@ EXCEPT !.pc = "unsubscribe", !.code = "OK"]]
    /\ returned' = NoCall
    /\ UNCHANGED <<mutex, broker, notify>>

\* Mutant of Unsubscribed: unsubscribeLocked closes the subscription and
\* forgets to delete it.
UnsubscribedKept(id) == subscriptions

\* The registry after unsubscribeLocked found subscription id in it.
Unsubscribed(id) == subscriptions \ {id}

\* unsubscribeLocked, deferred by Subscribe: under the mutex, remove and close
\* the subscription if the registry still holds it; then Subscribe returns.
UnsubscribeLocked(s) ==
    /\ returned = NoCall
    /\ subscribe[s].pc = "unsubscribe"
    /\ mutex = "free"
    /\ LET id == subscribe[s].id
           present == id \in subscriptions
           closed == IF present THEN [subs EXCEPT ![id] = closeSubscription(@)] ELSE subs
       IN /\ subscriptions' = IF present THEN Unsubscribed(id) ELSE subscriptions
          /\ subscribe' = [subscribe EXCEPT ![s] = IdleSubscribe]
          /\ returned' = SubscribeReturned(subscribe[s].code, closed[id])
          /\ subs' = Live(closed, subscriptions'
                                    \cup { subscribe'[t].id : t \in Subscribers })
    /\ UNCHANGED <<mutex, nextSubscriptionID, nextNotificationID,
                   pendingNotifications, pend, notify>>

\* ------------------------------------------------------------------ Respond

\* The request ids a responder may name: assigned or not.
RequestIds == 0..(MaxNotifications - 1)

\* The code Respond returns for (id, resp).
RespondCode(id, resp) ==
    IF id \notin pendingNotifications THEN "DeadlineExceeded"
    ELSE IF ~validateResponse(resp, pend[id].message.Request) THEN "InvalidArgument"
    ELSE "OK"

\* Mutant of respondTo: Respond sends without looking at the closed flag.
respondToClosed(pending, resp) ==
    closePending(sendOn([pending EXCEPT !.acked = Append(@, resp)], resp))

\* Mutant of respondTo: Respond hands the producer an empty response instead
\* of the responder's.
respondToEmpty(pending, resp) ==
    IF ~pending.closed
    THEN closePending(sendOn([pending EXCEPT !.acked = Append(@, resp)], EmptyResponse))
    ELSE [pending EXCEPT !.acked = Append(@, resp)]

\* The entry after Respond accepted resp for it: unless the entry is closed,
\* resp is sent on its response channel and the entry is closed.  acked is
\* the history of the responses Respond accepted for the entry.
respondTo(pending, resp) ==
    IF ~pending.closed
    THEN closePending(sendOn([pending EXCEPT !.acked = Append(@, resp)], resp))
    ELSE [pending EXCEPT !.acked = Append(@, resp)]

\* Mutant of RespondedTable: Respond forgets to delete the entry.
RespondedTableKept(id) == pendingNotifications

\* The pending table after Respond accepted a response for id.
RespondedTable(id) == pendingNotifications \ {id}

\* Respond, all of it under the mutex.  An accepted response is sent on the
\* response channel unless the entry is closed (a blocking send on a channel
\* of capacity 1), the entry is closed and removed from the table.
Respond(id, resp) ==
    /\ returned = NoCall
    /\ mutex = "free"
    /\ IF RespondCode(id, resp) # "OK"
       THEN /\ returned' = RespondReturned(id, RespondCode(id, resp))
            /\ UNCHANGED <<mutex, pendingNotifications, pend>>
       ELSE IF ~pend[id].closed /\ Len(pend[id].responseChannel) >= 1
       THEN /\ mutex' = "Respond"
            /\ returned' = NoCall
            /\ UNCHANGED <<pendingNotifications, pend>>
       ELSE /\ pendingNotifications' = RespondedTable(id)
            /\ pend' = Live([pend EXCEPT ![id] = respondTo(@, resp)],
                             pendingNotifications' \cup { notify[q].pending : q \in Producers })
            /\ returned' = RespondReturned(id, "OK")
            /\ mutex' = mutex
    /\ UNCHANGED <<nextSubscriptionID, subscriptions, subs, nextNotificationID,
                   notify, subscribe>>

\* ------------------------------------------------------------------ system

\* The caller of the call that returned takes its result.  The broker and the
\* goroutines take their steps between two results.
Return ==
    /\ returned # NoCall
    /\ returned' = NoCall
    /\ UNCHANGED <<mutex, broker, notify, subscribe>>

\* The steps of the producer goroutines P, the subscriber goroutines S and
\* the responders.
NextOf(P, S) ==
    \/ \E p \in P, req \in Requests : NotifyAdmission(p, req)
    \/ \E p \in P : NotifySubscribers(p)
    \/ \E p \in P : NotifyReceive(p)
    \/ \E p \in P : NotifyCtxDone(p)
    \/ \E p \in P : NotifyCancel(p)
    \/ \E s \in S, active \in BOOLEAN : SubscribeLocked(s, active)
    \/ \E s \in S, sendFails, seesClosed \in BOOLEAN :
          SubscribeReceive(s, sendFails, seesClosed)
    \/ \E s \in S : SubscribeCtxDone(s)
    \/ \E s \in S : UnsubscribeLocked(s)
    \/ \E id \in RequestIds, resp \in Responses : Respond(id, resp)
    \/ Return

Next == NextOf(Producers, Subscribers)

\* The broker with every goroutine.
Spec == Init /\ [][Next]_vars

\* Concurrent producers, responders and one subscriber goroutine.
SpecProducers == Init /\ [][NextOf(Producers, {1})]_vars

\* One producer goroutine, responders and concurrent subscribers.
SpecSubscribers == Init /\ [][NextOf({1}, Subscribers)]_vars

\* One producer goroutine, one subscriber goroutine and responders, with
\* fairness for the producer goroutines alone: a producer that can take a step
\* of Notify again and again eventually takes it (the scheduler runs a runnable
\* goroutine, a select with a ready case proceeds, and a goroutine waiting for
\* the mutex gets it).  A result that is handed over reaches its caller.
\* Subscribers and responders are free to stop anywhere.
LiveSpec ==
    /\ Init
    /\ [][NextOf({1}, {1})]_vars
    /\ WF_vars(Return)
    /\ \A p \in Producers :
         /\ SF_vars(NotifySubscribers(p))
         /\ SF_vars(NotifyReceive(p))
         /\ SF_vars(NotifyCtxDone(p))

\* ------------------------------------------------------------------ claims

\* The specification's classification of a request: it requires a response
\* iff its action list is non-empty, or open is set, or preview is set.
RequiresResponse(req) == req.Actions # <<>> \/ req.Open \/ req.Preview

\* A Notify call that passed admission returned in the last step.
NotifyReturns == returned.call = "Notify" /\ returned.code # "ResourceExhausted"

\* C1 as stated: a blocking Notify ends either with the cancellation error and
\* no response acked, or with the very response that Respond acked; Respond
\* never acks a response for a Notify that returns the cancellation error.
C1_ExactlyTwoOutcomes ==
    (NotifyReturns /\ RequiresResponse(returned.pending.message.Request)) =>
        \/ returned.code = "Canceled" /\ returned.pending.acked = <<>>
        \/ returned.code = "OK" /\ returned.pending.acked = <<returned.resp>>

\* C1, amended: a blocking Notify ends in one of three ways.  It returns the
\* response, and Respond acked exactly that response; or it returns the
\* cancellation error of a context that was done, and then its entry is out of
\* the table, so that Respond returns DeadlineExceeded for its id from then on,
\* whether Respond acked a response before (which is then dropped) or not.
\* Notify never returns a response that Respond did not ack.
C1_RaceOutcomes ==
    (NotifyReturns /\ RequiresResponse(returned.pending.message.Request)) =>
        LET id == returned.pending.message.RequestId
        IN \/ /\ returned.code = "Canceled"
              /\ returned.ctxDone
              /\ Len(returned.pending.acked) <= 1
              /\ id \notin pendingNotifications
              /\ \A r \in Responses : RespondCode(id, r) = "DeadlineExceeded"
           \/ /\ returned.code = "OK"
              /\ returned.pending.acked = <<returned.resp>>

\* The race Respond wins: the context was done before Respond acked, and
\* Notify still returned the response.
C1_Witness ==
    /\ NotifyReturns
    /\ RequiresResponse(returned.pending.message.Request)
    /\ returned.code = "OK"
    /\ returned.ctxDone
    /\ returned.ackedAtCancel = 0
    /\ returned.pending.acked = <<returned.resp>>

\* The specification's validation of a response against its request: a
\* populated command needs a non-empty cmd; otherwise an empty action is the
\* user's cancel, and any other action must be one of the request's.
Accepts(resp, req) ==
    IF resp.Command # NilCommand THEN resp.Command # ""
    ELSE resp.Action = "" \/ \E i \in 1..Len(req.Actions) : req.Actions[i] = resp.Action

\* C2: while a blocking Notify waits with its context not done and no response
\* acked yet, Respond acks every response valid for its request; and when such
\* a Notify returns with its context not done, it returns OK with exactly the
\* response Respond acked for its id.
C2_RoundTrip ==
    /\ \A p \in Producers :
         LET id == notify[p].pending
         IN (/\ notify[p].pc = "select"
             /\ RequiresResponse(notify[p].req)
             /\ ~notify[p].ctxDone
             /\ pend[id].acked = <<>>) =>
                /\ pend[id].responseChannel = <<>>
                /\ ~pend[id].closed
                /\ mutex = "free"
                /\ \A r \in Responses :
                     Accepts(r, notify[p].req) => RespondCode(id, r) = "OK"
    /\ (/\ NotifyReturns
        /\ RequiresResponse(returned.pending.message.Request)
        /\ ~returned.ctxDone) =>
           /\ returned.code = "OK"
           /\ returned.pending.acked = <<returned.resp>>
           /\ Accepts(returned.resp, returned.pending.message.Request)

\* A blocking Notify whose context was never done returned the action that
\* Respond acked.
C2_Witness ==
    /\ NotifyReturns
    /\ RequiresResponse(returned.pending.message.Request)
    /\ ~returned.ctxDone
    /\ returned.code = "OK"
    /\ returned.resp = NotifyResponse("yes", NilCommand)
    /\ returned.pending.acked = <<returned.resp>>

\* Notify call p waits in its select for the response to a request that
\* requires one.
Waiting(p) == notify[p].pc = "select" /\ RequiresResponse(notify[p].req)

\* C3: a Notify whose request requires a response returns only after a
\* response was acked for its id or its context became done (so it never
\* returns while neither has happened), and once one of the two has happened
\* while it waits, it eventually returns.
C3_ReturnsIffRespondedOrCancelled ==
    /\ []((NotifyReturns /\ RequiresResponse(returned.pending.message.Request)) =>
             (returned.pending.acked # <<>> \/ returned.ctxDone))
    /\ [](\A p \in Producers :
             (Waiting(p) /\ pend[notify[p].pending].acked = <<>> /\ ~notify[p].ctxDone) =>
                 (pend[notify[p].pending].responseChannel = <<>>
                    /\ ~pend[notify[p].pending].closed))
    /\ \A p \in Producers :
         (Waiting(p) /\ (pend[notify[p].pending].acked # <<>> \/ notify[p].ctxDone))
            ~> (NotifyReturns /\ RequiresResponse(returned.pending.message.Request))

\* A Notify whose request requires a response only because open is set
\* returned the response that was acked for it.
C3_Witness ==
    /\ NotifyReturns
    /\ returned.pending.message.Request.Open
    /\ returned.pending.message.Request.Actions = <<>>
    /\ ~returned.pending.message.Request.Preview
    /\ returned.code = "OK"
    /\ returned.pending.acked = <<returned.resp>>
    /\ ~returned.ctxDone

\* C4 as stated, for a Notify that passed admission and whose context is not
\* done: a Notify whose request requires no response returns the empty
\* response, and its fan-out leaves the envelope on the queue of every
\* registered subscription with the request's active flag.
C4_DeliveredToEachEligible ==
    [][ /\ (/\ NotifyReturns'
            /\ ~RequiresResponse(returned'.pending.message.Request)
            /\ ~returned'.ctxDone) =>
               returned'.code = "OK" /\ returned'.resp = EmptyResponse
        /\ \A p \in Producers :
             (NotifySubscribers(p) /\ ~RequiresResponse(notify[p].req)) =>
                \A i \in subscriptions :
                   subs[i].active = notify[p].req.Active =>
                      /\ i \in subscriptions'
                      /\ subs'[i].channel =
                           Append(subs[i].channel,
                                  [RequestId |-> nextNotificationID, Request |-> notify[p].req])
      ]_vars

\* C4, amended: the fan-out of an admitted Notify whose request requires no
\* response leaves the envelope on the queue of every registered subscription
\* with the request's active flag whose queue has a free slot, evicts the
\* ones whose queue is full, leaves the others alone, and puts the empty
\* response on the entry's channel, where it stays until the Notify takes it.
\* So the Notify can return without a Respond; when it returns, it returns
\* the empty response, or the context's error if its context is done.
C4_NonBlockingNotify ==
    [][ /\ \A p \in Producers :
             (NotifySubscribers(p) /\ ~RequiresResponse(notify[p].req)) =>
                LET message == [RequestId |-> nextNotificationID, Request |-> notify[p].req]
                IN /\ \A i \in subscriptions :
                        IF subs[i].active # message.Request.Active
                        THEN i \in subscriptions' /\ subs'[i] = subs[i]
                        ELSE IF Len(subs[i].channel) < subs[i].capacity
                        THEN /\ i \in subscriptions'
                             /\ subs'[i].channel = Append(subs[i].channel, message)
                             /\ ~subs'[i].closed
                        ELSE /\ i \notin subscriptions'
                             /\ subs'[i].channel = subs[i].channel
                             /\ subs'[i].closed
                   /\ notify'[p].pc = "select"
        /\ \A p \in Producers :
             (notify'[p].pc = "select" /\ ~RequiresResponse(notify'[p].req)) =>
                /\ pend'[notify'[p].pending].responseChannel = <<EmptyResponse>>
                /\ pend'[notify'[p].pending].closed
        /\ (NotifyReturns' /\ ~RequiresResponse(returned'.pending.message.Request)) =>
              \/ returned'.code = "OK" /\ returned'.resp = EmptyResponse
              \/ returned'.code = "Canceled" /\ returned'.ctxDone
      ]_vars

\* A Notify whose request requires no response returned the empty response
\* with no Respond acked and its envelope on the queue of a subscription.
C4_Witness ==
    /\ NotifyReturns
    /\ ~RequiresResponse(returned.pending.message.Request)
    /\ returned.code = "OK"
    /\ returned.resp = EmptyResponse
    /\ returned.pending.acked = <<>>
    /\ \E i \in subscriptions :
         \E k \in 1..Len(subs[i].channel) :
            subs[i].channel[k] = returned.pending.message

\* C5: the fan-out never waits for a subscriber, and an admitted Notify whose
\* request requires no response returns, with fairness for the producer alone:
\* whether subscribers read their queues or let them fill up.
C5_NoSubscriberStallsProducer ==
    /\ [](\A p \in Producers : notify[p].pc # "blocked")
    /\ [](mutex # "notifySubscribers")
    /\ \A p \in Producers :
         (notify[p].pc = "admitted" /\ ~RequiresResponse(notify[p].req))
            ~> (NotifyReturns /\ ~RequiresResponse(returned.pending.message.Request))

\* A Notify whose request requires no response returned after its fan-out
\* evicted a subscription with a full queue that its subscriber never read.
C5_Witness ==
    /\ NotifyReturns
    /\ ~RequiresResponse(returned.pending.message.Request)
    /\ returned.code = "OK"
    /\ \E s \in Subscribers :
         /\ subscribe[s].pc = "loop"
         /\ subscribe[s].id \notin subscriptions
         /\ subs[subscribe[s].id].closed
         /\ Len(subs[subscribe[s].id].channel) = subs[subscribe[s].id].capacity

\* C6: every envelope on the queue of a subscription, put there by the fan-out
\* or by the replay, carries a request whose active flag is the
\* subscription's; and the fan-out and the replay leave alone the queue of a
\* subscription whose flag differs from the request's.
C6_RoutedByActive ==
    [][ /\ \A i \in DOMAIN subs' :
             \A k \in 1..Len(subs'[i].channel) :
                subs'[i].channel[k].Request.Active = subs'[i].active
        /\ \A p \in Producers :
             NotifySubscribers(p) =>
                \A i \in DOMAIN subs :
                   subs[i].active # notify[p].req.Active => subs'[i] = subs[i]
        /\ \A s \in Subscribers, active \in BOOLEAN :
             SubscribeLocked(s, active) =>
                \A k \in 1..Len(subs'[nextSubscriptionID].channel) :
                   subs'[nextSubscriptionID].channel[k].Request.Active = active
      ]_vars

\* Two registered subscriptions with different flags while a notification is
\* pending: the one with its flag has the envelope, the other has nothing.
C6_Witness ==
    \E i, j \in subscriptions, id \in pendingNotifications :
       /\ subs[i].active # subs[j].active
       /\ subs[i].active = pend[id].message.Request.Active
       /\ subs[i].channel = <<pend[id].message>>
       /\ subs[j].channel = <<>>

\* The broker and the calls in progress, without the record of the last return.
system == <<mutex, broker, notify, subscribe>>

\* C7: a Notify that finds the pending table at or above its capacity returns
\* ResourceExhausted; a Notify returns ResourceExhausted only then; and that
\* step changes nothing: no id is allocated, nothing is enqueued, nobody is
\* evicted and no entry is inserted.
C7_AdmissionRejects ==
    [][ /\ \A p \in Producers, req \in Requests :
             (/\ NotifyAdmission(p, req)
              /\ Cardinality(pendingNotifications) >= NotifierMaxPendingNotifications) =>
                 returned' = NotifyReturned("ResourceExhausted", EmptyResponse,
                                            NoPending(req), IdleNotify)
        /\ (returned'.call = "Notify" /\ returned'.code = "ResourceExhausted") =>
              /\ Cardinality(pendingNotifications) >= NotifierMaxPendingNotifications
              /\ UNCHANGED system
      ]_vars

\* A Notify was rejected while the table held as many entries as its capacity.
C7_Witness ==
    /\ returned.call = "Notify"
    /\ returned.code = "ResourceExhausted"
    /\ Cardinality(pendingNotifications) = NotifierMaxPendingNotifications
    /\ nextNotificationID = NotifierMaxPendingNotifications

\* C8 as stated: a response with a command whose cmd is empty, or with a
\* non-empty action that is not among the request's, is invalid.
StatedInvalid(resp, req) ==
    \/ resp.Command # NilCommand /\ resp.Command = ""
    \/ resp.Action # "" /\ ~(\E i \in 1..Len(req.Actions) : req.Actions[i] = resp.Action)

\* C8 as stated: Respond returns InvalidArgument for every such response to an
\* entry of the table, and changes nothing.
C8_StatedInvalidRejected ==
    [][ \A id \in RequestIds, resp \in Responses :
          (/\ Respond(id, resp)
           /\ id \in pendingNotifications
           /\ StatedInvalid(resp, pend[id].message.Request)) =>
              /\ returned' = RespondReturned(id, "InvalidArgument")
              /\ UNCHANGED system
      ]_vars

\* C8, amended: the invalid responses are those with a command whose cmd is
\* empty and, when no command is populated, those with a non-empty action
\* that is not among the request's.  Respond returns InvalidArgument for these
\* and only these responses to an entry of the table and changes nothing: the
\* entry stays as it was and its producer keeps waiting.  Any other response to
\* the entry is acked, removes the entry and, the entry being unclosed, is the
\* one value on its channel.
C8_InvalidRejected ==
    [][ \A id \in RequestIds, resp \in Responses :
          (Respond(id, resp) /\ id \in pendingNotifications) =>
             IF ~Accepts(resp, pend[id].message.Request)
             THEN /\ returned' = RespondReturned(id, "InvalidArgument")
                  /\ UNCHANGED system
             ELSE /\ returned' = RespondReturned(id, "OK")
                  /\ id \notin pendingNotifications'
                  /\ \A p \in Producers :
                       (notify[p].pc = "select" /\ notify[p].pending = id
                          /\ ~pend[id].closed) =>
                            /\ pend'[id].responseChannel = <<resp>>
                            /\ pend'[id].closed
                  /\ UNCHANGED <<notify, subscribe, subscriptions, subs,
                                 nextNotificationID, nextSubscriptionID>>
      ]_vars

\* Respond rejected a response to a blocking entry whose producer waits: the
\* entry is still in the table, unclosed, with nothing on its channel.
C8_Witness ==
    /\ returned.call = "Respond"
    /\ returned.code = "InvalidArgument"
    /\ \E p \in Producers :
         /\ notify[p].pc = "select"
         /\ notify[p].pending = returned.RequestId
         /\ RequiresResponse(notify[p].req)
         /\ returned.RequestId \in pendingNotifications
         /\ ~pend[returned.RequestId].closed
         /\ pend[returned.RequestId].responseChannel = <<>>

\* C9: a Respond for an id that is not in the table returns DeadlineExceeded
\* and changes nothing; Respond acks only an id of the table, and the ack
\* removes it; an id that was assigned and is out of the table never comes
\* back into it; so no entry ever has more than one response acked.
C9_LateResponse ==
    [][ /\ \A id \in RequestIds :
             (/\ returned'.call = "Respond"
              /\ returned'.RequestId = id
              /\ id \notin pendingNotifications) =>
                 /\ returned'.code = "DeadlineExceeded"
                 /\ UNCHANGED system
        /\ (returned'.call = "Respond" /\ returned'.code = "OK") =>
              /\ returned'.RequestId \in pendingNotifications
              /\ returned'.RequestId \notin pendingNotifications'
        /\ \A id \in RequestIds :
             (id < nextNotificationID /\ id \notin pendingNotifications) =>
                 id \notin pendingNotifications'
        /\ \A id \in DOMAIN pend' : Len(pend'[id].acked) <= 1
      ]_vars

\* A late response: Respond returned DeadlineExceeded for the id of a blocking
\* Notify that has not returned yet and whose response was acked before.
C9_Witness ==
    /\ returned.call = "Respond"
    /\ returned.code = "DeadlineExceeded"
    /\ \E p \in Producers :
         /\ notify[p].pc = "select"
         /\ notify[p].pending = returned.RequestId
         /\ RequiresResponse(notify[p].req)
         /\ Len(pend[returned.RequestId].acked) = 1

\* C10 as stated: a blocking Notify whose context became done when no
\* response had been acked for its id returns the context's error, with its
\* entry out of the table and closed.
C10_CancelledBeforeAck ==
    (/\ NotifyReturns
     /\ RequiresResponse(returned.pending.message.Request)
     /\ returned.ctxDone
     /\ returned.ackedAtCancel = 0) =>
        /\ returned.code = "Canceled"
        /\ returned.pending.closed
        /\ returned.pending.message.RequestId \notin pendingNotifications

\* A blocking Notify returned with its context done and no response acked
\* for its id.
ReturnedCancelledUnacked ==
    /\ NotifyReturns
    /\ RequiresResponse(returned.pending.message.Request)
    /\ returned.ctxDone
    /\ returned.pending.acked = <<>>

\* C10, amended: a blocking Notify whose context is done and for whose id no
\* response has been acked by the time it returns, returns the context's
\* error; its entry is then out of the table and closed, nothing was sent on
\* its channel, and Respond returns DeadlineExceeded for its id, then and ever
\* after, because an id that is out of the table stays out of it.
C10_CancelledUnacked ==
    [][ /\ ReturnedCancelledUnacked' =>
             /\ returned'.code = "Canceled"
             /\ returned'.pending.closed
             /\ returned'.pending.responseChannel = <<>>
             /\ returned'.pending.message.RequestId \notin pendingNotifications'
        /\ \A id \in RequestIds :
             (id < nextNotificationID /\ id \notin pendingNotifications) =>
                 /\ id \notin pendingNotifications'
                 /\ \A r \in Responses :
                      Respond(id, r) => returned' = RespondReturned(id, "DeadlineExceeded")
      ]_vars

\* A blocking Notify returned the cancellation error with no response acked.
C10_Witness ==
    /\ NotifyReturns
    /\ RequiresResponse(returned.pending.message.Request)
    /\ returned.code = "Canceled"
    /\ returned.pending.acked = <<>>
    /\ returned.pending.closed

\* The envelope of the notification that the fan-out of call p creates.
Envelope(p) == [RequestId |-> nextNotificationID, Request |-> notify[p].req]

\* Subscription i has the flag of the request of call p and a full queue.
FullFor(i, p) ==
    /\ subs[i].active = notify[p].req.Active
    /\ Len(subs[i].channel) >= subs[i].capacity

\* Subscribe call s is in its loop and its subscription is out of the
\* registry: a fan-out evicted it.
Evicted(s) == subscribe[s].pc = "loop" /\ subscribe[s].id \notin subscriptions

EligibleEntries(active) ==
    { id \in pendingNotifications : pend[id].message.Request.Active = active }

\* C12: Subscribe leaves on the new subscription's queue the envelope of every
\* entry of the table with the subscription's flag, each once, and nothing
\* else, without waiting; it removes from the table those of them that
\* require no response and leaves every other entry in the table as it was.
\* An id that is out of the table stays out, so an entry that requires no
\* response is replayed once at most, and one that requires a response is
\* replayed to every joiner with its flag as long as it is in the table.
C12_Replay ==
    [][ /\ \A s \in Subscribers, active \in BOOLEAN :
             SubscribeLocked(s, active) =>
                LET new == subs'[nextSubscriptionID]
                IN /\ nextSubscriptionID \in subscriptions'
                   /\ new.active = active
                   /\ Range(new.channel) =
                        { pend[id].message : id \in EligibleEntries(active) }
                   /\ Len(new.channel) = Cardinality(EligibleEntries(active))
                   /\ pendingNotifications' =
                        pendingNotifications \
                           { id \in EligibleEntries(active) :
                                ~RequiresResponse(pend[id].message.Request) }
                   /\ \A id \in pendingNotifications' : pend'[id] = pend[id]
                   /\ subscribe'[s].pc = "loop"
                   /\ mutex' = mutex
        /\ \A id \in RequestIds :
             (id < nextNotificationID /\ id \notin pendingNotifications) =>
                 id \notin pendingNotifications'
      ]_vars

\* A replay took an entry that requires no response out of the table while
\* its Notify had not returned yet, and the joiner has its envelope.
C12_Witness ==
    \E p \in Producers, i \in subscriptions :
       /\ notify[p].pc = "select"
       /\ ~RequiresResponse(notify[p].req)
       /\ notify[p].pending \notin pendingNotifications
       /\ pend[notify[p].pending].acked = <<>>
       /\ subs[i].channel = <<pend[notify[p].pending].message>>

\* C13: on the queue of every subscription the envelopes are in increasing
\* order of request id: of two envelopes the subscription both receives, by
\* fan-out or by replay, the one with the smaller id is enqueued first.
C13_IncreasingIds ==
    \A i \in DOMAIN subs :
       \A k, l \in 1..Len(subs[i].channel) :
          k < l => subs[i].channel[k].RequestId < subs[i].channel[l].RequestId

\* The histories of a response channel with at most one send, at most one
\* close and no send after the close, as they are between two steps: a send
\* is followed by the close in the same critical section.
ChannelHistories == { <<>>, <<"close">>, <<"send", "close">> }

\* C14: on the response channel of every pending notification at most one
\* value is ever sent, none after the close, and the channel is closed at
\* most once; it has been closed exactly once when a response was acked for
\* the entry, when the entry is out of the table, when its request requires
\* no response, and when its Notify has returned.
C14_ResponseChannel ==
    /\ \A id \in DOMAIN pend :
          /\ pend[id].events \in ChannelHistories
          /\ Len(pend[id].responseChannel) <= 1
          /\ pend[id].closed <=> pend[id].events # <<>>
          /\ pend[id].acked # <<>> => pend[id].closed
          /\ id \notin pendingNotifications => pend[id].closed
          /\ ~RequiresResponse(pend[id].message.Request) =>
                pend[id].events = <<"send", "close">>
    /\ NotifyReturns =>
          /\ returned.pending.events \in ChannelHistories \ { <<>> }
          /\ returned.pending.closed

\* Cancellation raced with Respond: the response was sent and the channel
\* closed by Respond, and the cancellation branch, which found the entry gone,
\* closed nothing.
C14_Witness ==
    /\ NotifyReturns
    /\ RequiresResponse(returned.pending.message.Request)
    /\ returned.code = "Canceled"
    /\ returned.pending.events = <<"send", "close">>

\* C15: the queue of a subscription is closed at most once, and exactly once
\* when it is out of the registry, be it by eviction or by unsubscribe; a
\* registered subscription is unclosed; once closed, a subscription stays
\* closed and nothing is enqueued on it: its queue only loses the envelopes
\* that are read.  The unsubscribe of an evicted subscription changes nothing,
\* and the subscription of a Subscribe call that returned was closed once.
C15_SubscriptionClosedOnce ==
    [][ /\ \A i \in DOMAIN subs' :
             /\ subs'[i].closes <= 1
             /\ subs'[i].closed <=> subs'[i].closes = 1
             /\ i \in subscriptions' <=> ~subs'[i].closed
        /\ subscriptions' \subseteq DOMAIN subs'
        /\ \A i \in DOMAIN subs \cap DOMAIN subs' :
             subs[i].closed =>
                /\ subs'[i].closed
                /\ subs'[i].closes = subs[i].closes
                /\ \/ subs'[i].channel = subs[i].channel
                   \/ /\ subs[i].channel # <<>>
                      /\ subs'[i].channel = Tail(subs[i].channel)
        /\ \A s \in Subscribers :
             (UnsubscribeLocked(s) /\ subscribe[s].id \notin subscriptions) =>
                /\ subscriptions' = subscriptions
                /\ returned'.subscription = subs[subscribe[s].id]
        /\ returned'.call = "Subscribe" =>
             /\ returned'.subscription.closes = 1
             /\ returned'.subscription.id \notin subscriptions'
      ]_vars

\* A subscription was evicted and closed, and its Subscribe call, whose
\* context is done, is about to unsubscribe it.
C15_Witness ==
    \E s \in Subscribers :
       /\ subscribe[s].pc = "unsubscribe"
       /\ subscribe[s].code = "OK"
       /\ subscribe[s].id \notin subscriptions
       /\ subs[subscribe[s].id].closes = 1
       /\ subs[subscribe[s].id].channel # <<>>

\* The request ids in use: of the entries and of the envelopes on the queues.
AssignedRequestIds ==
    pendingNotifications \cup DOMAIN pend
       \cup UNION { { subs[i].channel[k].RequestId : k \in 1..Len(subs[i].channel) } :
                    i \in DOMAIN subs }

\* C16: no counter ever decreases; every id in use is below its counter, and
\* every object carries the id it is registered under; a Notify that is
\* admitted gets the counter's value, which is above every id in use, and
\* advances the counter, and so does a Subscribe: no two entries and no two
\* subscriptions share an id.
C16_MonotonicIds ==
    [][ /\ nextNotificationID' >= nextNotificationID
        /\ nextSubscriptionID' >= nextSubscriptionID
        /\ \A id \in AssignedRequestIds' : id < nextNotificationID'
        /\ \A id \in DOMAIN pend' : pend'[id].message.RequestId = id
        /\ \A i \in subscriptions' \cup DOMAIN subs' :
             i < nextSubscriptionID' /\ subs'[i].id = i
        /\ \A p \in Producers :
             NotifySubscribers(p) =>
                /\ notify'[p].pending = nextNotificationID
                /\ nextNotificationID \notin AssignedRequestIds
                /\ nextNotificationID' = nextNotificationID + 1
                /\ \A q \in Producers \ {p} :
                     notify[q].pc = "select" => notify[q].pending < nextNotificationID
        /\ \A s \in Subscribers, active \in BOOLEAN :
             SubscribeLocked(s, active) =>
                /\ subscribe'[s].id = nextSubscriptionID
                /\ nextSubscriptionID \notin subscriptions \cup DOMAIN subs
                /\ nextSubscriptionID' = nextSubscriptionID + 1
      ]_vars

\* Two concurrent Notify calls wait with different ids, and a second
\* subscription got the id after the first one's.
C16_Witness ==
    /\ \A p \in Producers : notify[p].pc = "select"
    /\ \E p, q \in Producers : notify[p].pending < notify[q].pending
    /\ nextSubscriptionID = 2
    /\ \E i \in subscriptions : i = 1

\* C17 as stated: once a Notify call has returned, its id is out of the
\* pending table.
C17_ReturnedIsRemoved ==
    NotifyReturns => returned.pending.message.RequestId \notin pendingNotifications

\* C17, amended: once a Notify call whose request requires a response has
\* returned, or one that returned the context's error, its id is out of the
\* table; an entry that requires a response is in the table only while its
\* Notify waits.  The receive of the pre-loaded response leaves the table as
\* it is, so the entry of a request that requires no response stays, closed,
\* after its Notify returned.  An id leaves the table only by a Respond that
\* is acked for it, by the cancellation branch of its Notify, or, when its
\* request requires no response, by the replay to a subscription with its
\* flag.
C17_EntryRemoval ==
    [][ /\ (/\ NotifyReturns'
            /\ \/ RequiresResponse(returned'.pending.message.Request)
               \/ returned'.code = "Canceled") =>
               returned'.pending.message.RequestId \notin pendingNotifications'
        /\ \A id \in pendingNotifications' :
             IF RequiresResponse(pend'[id].message.Request)
             THEN \E p \in Producers :
                     notify'[p].pc = "select" /\ notify'[p].pending = id
             ELSE pend'[id].closed
        /\ \A p \in Producers :
             NotifyReceive(p) => pendingNotifications' = pendingNotifications
        /\ \A id \in pendingNotifications \ pendingNotifications' :
             \/ \E r \in Responses :
                   Respond(id, r) /\ returned' = RespondReturned(id, "OK")
             \/ \E p \in Producers : NotifyCtxDone(p) /\ notify[p].pending = id
             \/ /\ ~RequiresResponse(pend[id].message.Request)
                /\ \E s \in Subscribers :
                      SubscribeLocked(s, pend[id].message.Request.Active)
      ]_vars

\* A Notify whose request requires a response returned it, with its id out
\* of the table, while the entry of a Notify that returned before, whose
\* request requires none, is still there.
C17_Witness ==
    /\ NotifyReturns
    /\ RequiresResponse(returned.pending.message.Request)
    /\ returned.code = "OK"
    /\ returned.pending.message.RequestId \notin pendingNotifications
    /\ \A p \in Producers : notify[p].pc = "idle"
    /\ \E id \in pendingNotifications : ~RequiresResponse(pend[id].message.Request)

\* C18: the loop of Subscribe ends only into its deferred unsubscribe, with
\* OK when the stream's context is done, with Aborted when the queue was
\* found closed, which only an evicted subscription's is, and with Internal
\* when the stream's send failed; Subscribe returns only out of the
\* unsubscribe, with that code, its subscription out of the registry and
\* closed.  The unsubscribe removes and closes the subscription if the
\* registry holds it and leaves every other subscription alone; if the
\* subscription was evicted already it changes nothing.
C18_UnsubscribeOnExit ==
    [][ /\ \A s \in Subscribers :
             (subscribe[s].pc = "loop" /\ subscribe'[s].pc # "loop") =>
                /\ subscribe'[s].pc = "unsubscribe"
                /\ subscribe'[s].id = subscribe[s].id
                /\ subscribe'[s].code \in {"OK", "Aborted", "Internal"}
                /\ subscribe'[s].code = "Aborted" =>
                      /\ subs[subscribe[s].id].closed
                      /\ subscribe[s].id \notin subscriptions
        /\ \A s \in Subscribers :
             (subscribe[s].pc = "unsubscribe" /\ subscribe'[s].pc # "unsubscribe") =>
                /\ UnsubscribeLocked(s)
                /\ returned'.call = "Subscribe"
                /\ returned'.code = subscribe[s].code
                /\ returned'.subscription.id = subscribe[s].id
        /\ returned'.call = "Subscribe" =>
             /\ returned'.subscription.closed
             /\ returned'.subscription.id \notin subscriptions'
        /\ \A s \in Subscribers :
             UnsubscribeLocked(s) =>
                /\ subscriptions' = subscriptions \ {subscribe[s].id}
                /\ \A i \in subscriptions' : subs'[i] = subs[i]
                /\ returned'.subscription.channel = subs[subscribe[s].id].channel
                /\ UNCHANGED <<pendingNotifications, pend, nextNotificationID,
                               nextSubscriptionID, notify, mutex>>
                /\ subscribe[s].id \notin subscriptions =>
                      returned'.subscription = subs[subscribe[s].id]
      ]_vars

\* Subscribe returned Internal after a failed send: its subscription, which
\* was registered until then, is closed and out of the registry, and another
\* subscription is still registered.
C18_Witness ==
    /\ returned.call = "Subscribe"
    /\ returned.code = "Internal"
    /\ returned.subscription.closed
    /\ returned.subscription.id \notin subscriptions
    /\ subscriptions # {}

\* C19: no send waits with the mutex held, so the mutex is free between any
\* two steps and no call is stuck in a critical section.  A new
\* subscription's queue has the capacity max(floor, size of the pending
\* table), which is at least the number of envelopes the replay sends, all of
\* which are on the queue when subscribeLocked is done; and the response
\* channel of every entry of the table that is not closed is empty, so
\* Respond's send finds the slot free.
C19_NoSendUnderMutexWaits ==
    [][ /\ mutex' = "free"
        /\ \A p \in Producers : notify'[p].pc # "blocked"
        /\ \A s \in Subscribers : subscribe'[s].pc # "blocked"
        /\ \A s \in Subscribers, active \in BOOLEAN :
             SubscribeLocked(s, active) =>
                LET new == subs'[nextSubscriptionID]
                    size == Cardinality(pendingNotifications)
                IN /\ new.capacity = IF SubscriberMaxPendingNotifications > size
                                     THEN SubscriberMaxPendingNotifications ELSE size
                   /\ Cardinality(EligibleEntries(active)) <= new.capacity
                   /\ Len(new.channel) = Cardinality(EligibleEntries(active))
        /\ \A id \in pendingNotifications' :
             ~pend'[id].closed => pend'[id].responseChannel = <<>>
      ]_vars

\* A replay filled a queue whose capacity is the size of the pending table,
\* above the floor.
C19_Witness ==
    /\ mutex = "free"
    /\ \E i \in subscriptions :
         /\ subs[i].capacity > SubscriberMaxPendingNotifications
         /\ Len(subs[i].channel) = subs[i].capacity
         /\ subs[i].capacity = Cardinality(pendingNotifications)

\* C20 as stated: the pending table never holds more entries than its
\* capacity.
C20_AtMostCapacity ==
    Cardinality(pendingNotifications) <= NotifierMaxPendingNotifications

\* The Notify calls that passed the admission check and have not inserted
\* their entry yet.
Admitted == { p \in Producers : notify[p].pc = "admitted" }

\* C20, amended: a Notify call is admitted only when it reads a table size
\* below the capacity, and the table grows only by one entry, inserted by a
\* call that was admitted.  The check and the insert are not one critical
\* section: calls admitted together at a size below the capacity all insert,
\* so the table holds at most capacity - 1 entries plus one for each producer
\* calling concurrently, and the entries together with the admitted calls
\* never exceed that number.
C20_AdmittedBelowCapacity ==
    [][ /\ \A p \in Producers, req \in Requests :
             (NotifyAdmission(p, req) /\ notify'[p].pc = "admitted") =>
                Cardinality(pendingNotifications) < NotifierMaxPendingNotifications
        /\ Cardinality(pendingNotifications') > Cardinality(pendingNotifications) =>
             /\ Cardinality(pendingNotifications') = Cardinality(pendingNotifications) + 1
             /\ \E p \in Admitted : NotifySubscribers(p)
        /\ Cardinality(pendingNotifications') + Cardinality(Admitted')
              <= NotifierMaxPendingNotifications - 1 + Cardinality(Producers)
      ]_vars

\* Two calls were admitted together and both inserted: the table holds one
\* entry more than its capacity.
C20_Witness ==
    /\ Cardinality(pendingNotifications) = NotifierMaxPendingNotifications + 1
    /\ \A p \in Producers : notify[p].pc = "select"

\* The request ids on a queue, in the order they were enqueued.
QueuedIds(queue) == [k \in 1..Len(queue) |-> queue[k].RequestId]

\* C21: no subscription has the same request id enqueued on its queue twice,
\* in any interleaving of Notify and Subscribe.  A subscription gets its
\* queue in the step that registers it, and that replay enqueues entries of
\* the pending table only, each once, all with an id below the notification
\* counter; no notification is created in that step.  Afterwards its queue
\* changes only by losing the envelope that is read, or by the fan-out of a
\* notification created in that very step, which enqueues the counter's
\* value, an id above every id assigned so far, on a registered subscription
\* and advances the counter.  The counter never goes back, so the ids on a
\* queue are distinct and below the counter at every moment, and an id that
\* was read is never enqueued again.
C21_NoDuplicateEnqueue ==
    [][ /\ nextNotificationID' >= nextNotificationID
        /\ \A i \in DOMAIN subs' :
             LET ids == QueuedIds(subs'[i].channel)
             IN /\ \A k, l \in 1..Len(ids) : k # l => ids[k] # ids[l]
                /\ \A k \in 1..Len(ids) : ids[k] < nextNotificationID'
        /\ \A i \in DOMAIN subs' \ DOMAIN subs :
             /\ i = nextSubscriptionID
             /\ nextNotificationID' = nextNotificationID
             /\ \A k \in 1..Len(subs'[i].channel) :
                  LET message == subs'[i].channel[k]
                  IN /\ message.RequestId \in pendingNotifications
                     /\ message.RequestId < nextNotificationID
                     /\ message = pend[message.RequestId].message
        /\ \A i \in DOMAIN subs \cap DOMAIN subs' :
             \/ subs'[i].channel = subs[i].channel
             \/ /\ subs[i].channel # <<>>
                /\ subs'[i].channel = Tail(subs[i].channel)
             \/ /\ i \in subscriptions
                /\ QueuedIds(subs'[i].channel)
                      = Append(QueuedIds(subs[i].channel), nextNotificationID)
                /\ nextNotificationID \notin pendingNotifications
                /\ nextNotificationID' > nextNotificationID
      ]_vars

\* The only subscription so far was replayed notification 0 when it joined,
\* which took the non-blocking entry out of the table while its Notify call
\* had not read the response yet.  Its queue has room for the one entry the
\* table held then, so notification 1, on its queue now that the subscriber
\* read the first envelope, was created after it joined and fanned out.
C21_Witness ==
    \E p \in Producers, i \in subscriptions :
       /\ notify[p].pc = "select"
       /\ ~notify[p].ctxDone
       /\ notify[p].pending = 0
       /\ 0 \notin pendingNotifications
       /\ pend[0].acked = <<>>
       /\ ~isBlocking(pend[0].message.Request)
       /\ supports(subs[i], pend[0].message.Request)
       /\ nextSubscriptionID = 1
       /\ subs[i].capacity = SubscriberMaxPendingNotifications
       /\ QueuedIds(subs[i].channel) = <<1>>

====
